---- MODULE Spec2Model ----
(***************************************************************************)
(* A model of zthpool's reward-schedule resolver (payouts/unlocker.go) and *)
(* of its Redis persistence gateway (storage/redis.go.save): the payout    *)
(* lock flag, the pending-payment ledger and the key deletions.            *)
(*                                                                         *)
(* Reward amounts are float64 in the source; every amount the schedules    *)
(* hold is a multiple of 0.01, and the model keeps amounts in hundredths   *)
(* of a ZTH (50.0 is 5000, 6.25 is 625).                                   *)
(***************************************************************************)
EXTENDS Integers, Sequences, FiniteSets, TLC

VARIABLES
    config,     \* the NetworkConfig the resolver is called with
    lastCall,   \* the most recent resolver call and what it returned
    prevCall,   \* the resolver call before it
    exited,     \* TRUE once log.Fatalf has ended the process
    store,      \* the Redis keyspace: a function from the keys present to their values
    lastOp,     \* the most recent gateway call of this process and its result
    lpc,        \* where the GetPendingPayments call is: "idle", "loop", "done"
    scan,       \* its locals: keys, the index of the next key, payments
    listed,     \* what the last GetPendingPayments call returned
    failure,    \* the first fetch or decode of the call that failed, if any
    disturbed,  \* TRUE once another process wrote the store since the call's scan
    pc,         \* each payout runner's next step
    saw,        \* what each runner's last IsPayoutsLocked call returned
    batch,      \* how many pending payments each runner read for its batch
    raced       \* TRUE once a runner found the lock free while another runner
                \* that had found it free had not yet set it

rewardVars == <<config, lastCall, prevCall, exited>>

storeVars == <<store, lastOp>>

ledgerVars == <<lpc, scan, listed, failure, disturbed>>

runnerVars == <<pc, saw, batch, raced>>

vars ==
    <<config, lastCall, prevCall, exited, store, lastOp,
      lpc, scan, listed, failure, disturbed, pc, saw, batch, raced>>

(***************************************************************************)
(* Bounds of the model.                                                    *)
(***************************************************************************)
\* Arbitrary schedules have breakpoints among 0, 10, ..., 10 * MaxGenBreaks.
MaxGenBreaks == 2

\* The pending-payment keys are pending_payment:1 .. pending_payment:MaxPayments.
MaxPayments == 2

\* The payout runners are 1 .. NumRunners.
NumRunners == 3

(***************************************************************************)
(* payouts/unlocker.go: the schedules.                                     *)
(***************************************************************************)
ZetherRewards ==
    [h \in {0, 100000, 200000, 300000} |->
        CASE h = 0      -> 5000
          [] h = 100000 -> 2500
          [] h = 200000 -> 1250
          [] h = 300000 -> 625]

TestnetRewards ==
    [h \in {0, 1000, 2000, 3000} |->
        CASE h = 0    -> 5000
          [] h = 1000 -> 2500
          [] h = 2000 -> 1250
          [] h = 3000 -> 625]

ZetherNetwork ==
    [Name |-> "ZetherMainnet", BlockReward |-> ZetherRewards,
     AdjustmentFreq |-> 100000, HasUncles |-> FALSE]

ZetherTestnet ==
    [Name |-> "ZetherTestnet", BlockReward |-> TestnetRewards,
     AdjustmentFreq |-> 1000, HasUncles |-> FALSE]

\* NetworkConfig values other than the two shipped ones: every map from a
\* non-empty set of small heights to a reward.
GenHeights == {10 * i : i \in 0..MaxGenBreaks}

GenRewards == {625, 1250, 2500}

GenSchedules ==
    UNION {[D -> GenRewards] : D \in (SUBSET GenHeights) \ {{}}}

NetworkConfig ==
    {ZetherNetwork, ZetherTestnet}
    \cup {[Name |-> "Generic", BlockReward |-> S,
           AdjustmentFreq |-> 10, HasUncles |-> FALSE] : S \in GenSchedules}

(***************************************************************************)
(* Go's range over a map visits the entries in an order the language       *)
(* leaves unspecified: any permutation of the keys.  A call is recorded    *)
(* with one order of traversal that gives the amount it returned.          *)
(***************************************************************************)
RECURSIVE Perms(_)
Perms(S) ==
    IF S = {}
    THEN {<<>>}
    ELSE UNION {{<<x>> \o p : p \in Perms(S \ {x})} : x \in S}

MapRangeOrders(m) == Perms(DOMAIN m)

\* The loop of GetReward from its i-th entry on, in the order of traversal.
RECURSIVE RewardLoop(_, _, _, _, _)
RewardLoop(BlockReward, order, i, blockHeight, reward) ==
    IF i > Len(order)
    THEN reward
    ELSE IF blockHeight >= order[i]
         THEN RewardLoop(BlockReward, order, i + 1, blockHeight,
                         BlockReward[order[i]])
         ELSE reward    \* break

GetReward(cfg, blockHeight, order) ==
    RewardLoop(cfg.BlockReward, order, 1, blockHeight, 0)

\* What GetReward can return for a height: one amount per order of traversal.
RewardOutcomes(cfg, blockHeight) ==
    {GetReward(cfg, blockHeight, order) :
        order \in MapRangeOrders(cfg.BlockReward)}

\* An order of traversal under which GetReward returns the given amount.
OrderGiving(cfg, blockHeight, reward) ==
    CHOOSE order \in MapRangeOrders(cfg.BlockReward) :
        GetReward(cfg, blockHeight, order) = reward

\* The heights the resolver is called with: a negative one, each breakpoint,
\* the height half a period after it, and one far beyond.
CallHeights(cfg) ==
    {-1, 1000000}
    \cup {h + d : h \in DOMAIN cfg.BlockReward,
                  d \in {0, cfg.AdjustmentFreq \div 2}}

NoCall ==
    [fn |-> "none", height |-> 0, order |-> <<>>, reward |-> 0, err |-> "nil"]

Forget(call) == [call EXCEPT !.order = <<>>]

(***************************************************************************)
(* The resolver's operations.                                              *)
(***************************************************************************)
CallGetReward ==
    /\ ~exited
    /\ \E h \in CallHeights(config) :
       \E r \in RewardOutcomes(config, h) :
          lastCall' = [fn |-> "GetReward", height |-> h,
                       order |-> OrderGiving(config, h, r),
                       reward |-> r, err |-> "nil"]
    /\ prevCall' = Forget(lastCall)
    /\ UNCHANGED <<config, exited>>
    /\ UNCHANGED <<storeVars, ledgerVars, runnerVars>>

\* SimulateUnlock ends the process on a negative height and otherwise prints
\* what GetReward returns.
SimulateUnlock ==
    /\ ~exited
    /\ \E h \in CallHeights(config) :
          IF h < 0
          THEN /\ exited' = TRUE
               /\ lastCall' = [fn |-> "SimulateUnlock", height |-> h,
                               order |-> <<>>, reward |-> 0, err |-> "fatal"]
          ELSE /\ exited' = FALSE
               /\ \E r \in RewardOutcomes(config, h) :
                    lastCall' = [fn |-> "SimulateUnlock", height |-> h,
                                 order |-> OrderGiving(config, h, r),
                                 reward |-> r, err |-> "nil"]
    /\ prevCall' = Forget(lastCall)
    /\ UNCHANGED config
    /\ UNCHANGED <<storeVars, ledgerVars, runnerVars>>

(***************************************************************************)
(* storage/redis.go.save: the keyspace and the client's replies.           *)
(*                                                                         *)
(* A key is <<prefix, id>>: <<"pending_payment:", 1>> is the key           *)
(* pending_payment:1.  A value is the text Redis holds, as a sequence of   *)
(* tokens: the text 1 is one number token, a JSON object is its braces,    *)
(* names, colons, values and commas.                                       *)
(***************************************************************************)
Punct(s) == [t |-> "punct", s |-> s, n |-> 0]

Str(s) == [t |-> "string", s |-> s, n |-> 0]

Num(n) == [t |-> "number", s |-> "", n |-> n]

\* A number with a fractional part, kept in hundredths: 12.5 is Frac(1250).
Frac(n) == [t |-> "fraction", s |-> "", n |-> n]

\* The sentinel value "1" of IsPayoutsLocked.
One == <<Num(1)>>

LockKey == <<"payouts_locked", 0>>

MinerKey == <<"miner:", 1>>

ShareKey == <<"share:", 1>>

EmptyStore == [k \in {} |-> <<>>]

SetKey(s, key, text) ==
    [k \in (DOMAIN s) \cup {key} |-> IF k = key THEN text ELSE s[k]]

DelKey(s, key) == [k \in (DOMAIN s) \ {key} |-> s[k]]

\* A call whose exchange with the server fails (connection lost, timeout)
\* may or may not have been applied by the server.
AfterWrite(s, written, fault) == IF fault THEN {s, written} ELSE {written}

\* client.Get(...).Result(): redis.Nil when the key is absent.
RedisGet(s, key, fault) ==
    IF fault
    THEN [val |-> <<>>, err |-> "io"]
    ELSE IF key \notin DOMAIN s
         THEN [val |-> <<>>, err |-> "redis.Nil"]
         ELSE [val |-> s[key], err |-> "nil"]

\* client.Del(...): the number of keys removed; an absent key is no error.
RedisDel(s, key, fault) ==
    IF fault
    THEN [n |-> 0, err |-> "io"]
    ELSE [n |-> IF key \in DOMAIN s THEN 1 ELSE 0, err |-> "nil"]

\* client.Set(...).Err().
RedisSet(fault) == IF fault THEN "io" ELSE "nil"

\* The text the client sends for a float64 (strconv's 'f' format with the
\* fewest digits): 1.0 is sent as 1, 12.5 as 12.5.  Amounts in hundredths.
FormatFloat(v) == IF v % 100 = 0 THEN <<Num(v \div 100)>> ELSE <<Frac(v)>>

ExchangeValues == {0, 100, 1250}

StoreKeys == {LockKey, MinerKey, ShareKey}

NoOp ==
    [op |-> "none", key |-> LockKey, fault |-> FALSE, err |-> "nil",
     locked |-> FALSE, existed |-> FALSE, repeat |-> 0]

DeleteOps == {"DeleteOldMinerData", "DeleteOldShareData"}

(***************************************************************************)
(* The gateway's functions, each from the client's reply to its result.    *)
(***************************************************************************)
\* A comparison with the wrong literal.
IsPayoutsLocked_WrongLiteral(reply) ==
    IF reply.err # "nil"
    THEN IF reply.err = "redis.Nil"
         THEN [locked |-> FALSE, err |-> "nil"]
         ELSE [locked |-> FALSE, err |-> "failed to check payouts lock"]
    ELSE [locked |-> reply.val = <<Str("true")>>, err |-> "nil"]

\* Presence of the key taken for the lock, whatever its value.
IsPayoutsLocked_AnyValue(reply) ==
    IF reply.err # "nil"
    THEN IF reply.err = "redis.Nil"
         THEN [locked |-> FALSE, err |-> "nil"]
         ELSE [locked |-> FALSE, err |-> "failed to check payouts lock"]
    ELSE [locked |-> TRUE, err |-> "nil"]

\* Every error of the read taken for a missing key.
IsPayoutsLocked_AnyErrorUnlocked(reply) ==
    IF reply.err # "nil"
    THEN [locked |-> FALSE, err |-> "nil"]
    ELSE [locked |-> reply.val = One, err |-> "nil"]

IsPayoutsLocked(reply) ==
    IF reply.err # "nil"
    THEN IF reply.err = "redis.Nil"
         THEN [locked |-> FALSE, err |-> "nil"]
         ELSE [locked |-> FALSE, err |-> "failed to check payouts lock"]
    ELSE [locked |-> reply.val = One, err |-> "nil"]

StoreExchangeData(err) ==
    IF err # "nil" THEN "failed to store exchange data" ELSE "nil"

\* A delete that removed nothing taken for a failure.
DeleteOldMinerData_AbsentIsError(reply) ==
    IF reply.err # "nil" \/ reply.n = 0
    THEN "failed to delete old miner data"
    ELSE "nil"

DeleteOldMinerData(reply) ==
    IF reply.err # "nil" THEN "failed to delete old miner data" ELSE "nil"

DeleteOldShareData(reply) ==
    IF reply.err # "nil" THEN "failed to delete old share data" ELSE "nil"

\* How many times in a row the same key has been deleted, counted to 2.
Repeat(key) ==
    IF lastOp.op \in DeleteOps /\ lastOp.key = key /\ lastOp.repeat >= 1
    THEN 2
    ELSE 1

(***************************************************************************)
(* The gateway's operations, as this process calls them.                   *)
(***************************************************************************)
CallIsPayoutsLocked ==
    /\ \E fault \in BOOLEAN :
          LET res == IsPayoutsLocked(RedisGet(store, LockKey, fault))
          IN  lastOp' = [op |-> "IsPayoutsLocked", key |-> LockKey,
                         fault |-> fault, err |-> res.err,
                         locked |-> res.locked,
                         existed |-> LockKey \in DOMAIN store, repeat |-> 0]
    /\ UNCHANGED store
    /\ UNCHANGED <<rewardVars, ledgerVars, runnerVars>>

\* The payout runner's write of the sentinel: SET payouts_locked 1.
SetPayoutsLock ==
    /\ \E fault \in BOOLEAN :
          /\ store' \in AfterWrite(store, SetKey(store, LockKey, One), fault)
          /\ lastOp' = [op |-> "SetPayoutsLock", key |-> LockKey,
                        fault |-> fault, err |-> RedisSet(fault),
                        locked |-> FALSE,
                        existed |-> LockKey \in DOMAIN store, repeat |-> 0]
    /\ UNCHANGED <<rewardVars, ledgerVars, runnerVars>>

\* The payout runner's removal of the sentinel: DEL payouts_locked.
ClearPayoutsLock ==
    /\ \E fault \in BOOLEAN :
          /\ store' \in AfterWrite(store, DelKey(store, LockKey), fault)
          /\ lastOp' = [op |-> "ClearPayoutsLock", key |-> LockKey,
                        fault |-> fault,
                        err |-> RedisDel(store, LockKey, fault).err,
                        locked |-> FALSE,
                        existed |-> LockKey \in DOMAIN store, repeat |-> 0]
    /\ UNCHANGED <<rewardVars, ledgerVars, runnerVars>>

CallStoreExchangeData ==
    /\ \E key \in StoreKeys, value \in ExchangeValues, fault \in BOOLEAN :
          /\ store' \in AfterWrite(store,
                                   SetKey(store, key, FormatFloat(value)),
                                   fault)
          /\ lastOp' = [op |-> "StoreExchangeData", key |-> key,
                        fault |-> fault,
                        err |-> StoreExchangeData(RedisSet(fault)),
                        locked |-> FALSE,
                        existed |-> key \in DOMAIN store, repeat |-> 0]
    /\ UNCHANGED <<rewardVars, ledgerVars, runnerVars>>

CallDeleteOldMinerData ==
    /\ \E key \in StoreKeys, fault \in BOOLEAN :
          /\ store' \in AfterWrite(store, DelKey(store, key), fault)
          /\ lastOp' = [op |-> "DeleteOldMinerData", key |-> key,
                        fault |-> fault,
                        err |-> DeleteOldMinerData(RedisDel(store, key, fault)),
                        locked |-> FALSE,
                        existed |-> key \in DOMAIN store,
                        repeat |-> Repeat(key)]
    /\ UNCHANGED <<rewardVars, ledgerVars, runnerVars>>

CallDeleteOldShareData ==
    /\ \E key \in StoreKeys, fault \in BOOLEAN :
          /\ store' \in AfterWrite(store, DelKey(store, key), fault)
          /\ lastOp' = [op |-> "DeleteOldShareData", key |-> key,
                        fault |-> fault,
                        err |-> DeleteOldShareData(RedisDel(store, key, fault)),
                        locked |-> FALSE,
                        existed |-> key \in DOMAIN store,
                        repeat |-> Repeat(key)]
    /\ UNCHANGED <<rewardVars, ledgerVars, runnerVars>>

(***************************************************************************)
(* The pending-payment ledger: the records and their JSON text.            *)
(***************************************************************************)
PaymentPrefix == "pending_payment:"

PaymentKeys == {<<PaymentPrefix, i>> : i \in 1..MaxPayments}

LedgerKeys == PaymentKeys \cup {MinerKey}

\* The glob pending_payment:* of the KEYS command.
Matches(key, prefix) == key[1] = prefix

ZeroPayment == [Address |-> "", Amount |-> 0, Timestamp |-> 0]

SamplePayment ==
    [Address |-> "0xabc", Amount |-> 1000, Timestamp |-> 1700000000]

PaymentRecords ==
    {SamplePayment,
     [Address |-> "0xdef", Amount |-> 250, Timestamp |-> 1700000060]}

\* The text of a record: {"Address":...,"Amount":...,"Timestamp":...}.
Marshal(p) ==
    <<Punct("{"), Str("Address"), Punct(":"), Str(p.Address), Punct(","),
      Str("Amount"), Punct(":"), Num(p.Amount), Punct(","),
      Str("Timestamp"), Punct(":"), Num(p.Timestamp), Punct("}")>>

\* json.Marshal of a chart value: a map gives an object of its members, a
\* value JSON cannot hold (a channel) gives an error.
RECURSIVE MemberTokens(_, _)
MemberTokens(members, i) ==
    IF i > Len(members)
    THEN <<>>
    ELSE <<Str(members[i][1]), Punct(":"), members[i][2]>>
         \o (IF i < Len(members) THEN <<Punct(",")>> ELSE <<>>)
         \o MemberTokens(members, i + 1)

JsonMarshal(data) ==
    CASE data.kind = "chan" -> [text |-> <<>>, err |-> "unsupported type"]
      [] OTHER -> [text |-> <<Punct("{")>> \o MemberTokens(data.members, 1)
                            \o <<Punct("}")>>,
                   err |-> "nil"]

ChartData ==
    {[kind |-> "chan", members |-> <<>>],
     [kind |-> "map", members |-> << <<"amount", Num(7)>>, <<"hashrate", Num(5)>> >>],
     [kind |-> "map", members |-> << <<"Amount", Str("x")>> >>]}

\* The field of PendingPayment a JSON name decodes into: the exact name or
\* any other casing of it; "" when there is none.
FieldFor_TimestampRenamed(name) ==
    CASE name \in {"Address", "address", "ADDRESS"} -> "Address"
      [] name \in {"Amount", "amount", "AMOUNT"} -> "Amount"
      [] name \in {"ts", "TS"} -> "Timestamp"
      [] OTHER -> ""

FieldFor(name) ==
    CASE name \in {"Address", "address", "ADDRESS"} -> "Address"
      [] name \in {"Amount", "amount", "AMOUNT"} -> "Amount"
      [] name \in {"Timestamp", "timestamp", "TIMESTAMP"} -> "Timestamp"
      [] OTHER -> ""

IsJsonValue(tok) ==
    tok.t \in {"string", "number", "fraction"} \/ tok = Punct("null")

\* The text is one JSON object: { name : value , ... }.
IsJsonObject(text) ==
    /\ Len(text) >= 2
    /\ text[1] = Punct("{")
    /\ text[Len(text)] = Punct("}")
    /\ \/ Len(text) = 2
       \/ /\ (Len(text) - 1) % 4 = 0
          /\ \A j \in 0..((Len(text) - 5) \div 4) :
                /\ text[4 * j + 2].t = "string"
                /\ text[4 * j + 3] = Punct(":")
                /\ IsJsonValue(text[4 * j + 4])
                /\ text[4 * j + 5] =
                      (IF 4 * j + 5 = Len(text) THEN Punct("}") ELSE Punct(","))

\* One member decoded into the record: an unknown name and a null are
\* skipped, a value of the wrong type leaves the field and is an error.
DecodeMember(acc, name, tok) ==
    LET field == FieldFor(name)
        mismatch == [acc EXCEPT !.err = IF acc.err = "nil"
                                        THEN "json: cannot unmarshal"
                                        ELSE acc.err]
    IN  CASE field = "" \/ tok = Punct("null") -> acc
          [] field = "Address" ->
                IF tok.t = "string"
                THEN [acc EXCEPT !.payment.Address = tok.s]
                ELSE mismatch
          [] field = "Amount" ->
                IF tok.t = "number"
                THEN [acc EXCEPT !.payment.Amount = tok.n]
                ELSE mismatch
          [] OTHER ->
                IF tok.t = "number"
                THEN [acc EXCEPT !.payment.Timestamp = tok.n]
                ELSE mismatch

RECURSIVE DecodeMembers(_, _, _)
DecodeMembers(text, j, acc) ==
    IF 4 * j + 4 > Len(text)
    THEN acc
    ELSE DecodeMembers(text, j + 1,
                       DecodeMember(acc, text[4 * j + 2].s, text[4 * j + 4]))

\* json.Unmarshal([]byte(val), &payment) with payment the zero record.
Unmarshal(text) ==
    CASE text = <<Punct("null")>> -> [payment |-> ZeroPayment, err |-> "nil"]
      [] Len(text) = 1 /\ IsJsonValue(text[1]) ->
            [payment |-> ZeroPayment, err |-> "json: cannot unmarshal"]
      [] IsJsonObject(text) ->
            DecodeMembers(text, 0, [payment |-> ZeroPayment, err |-> "nil"])
      [] OTHER -> [payment |-> ZeroPayment, err |-> "json: syntax error"]

\* client.Keys(...).Result(): the matching keys in an order of the server's.
RedisKeys(s, prefix, fault) ==
    IF fault
    THEN {[keys |-> <<>>, err |-> "io"]}
    ELSE {[keys |-> order, err |-> "nil"] :
            order \in Perms({k \in DOMAIN s : Matches(k, prefix)})}

\* A key whose fetch or decode fails is skipped.
LoopStep_SkipFailed(payments, reply) ==
    IF reply.err # "nil"
    THEN [payments |-> payments, err |-> "nil"]
    ELSE LET d == Unmarshal(reply.val)
         IN  IF d.err # "nil"
             THEN [payments |-> payments, err |-> "nil"]
             ELSE [payments |-> Append(payments, d.payment), err |-> "nil"]

\* One round of the loop of GetPendingPayments, from the reply of the GET.
LoopStep(payments, reply) ==
    IF reply.err # "nil"
    THEN [payments |-> <<>>, err |-> "failed to get payment data for key"]
    ELSE LET d == Unmarshal(reply.val)
         IN  IF d.err # "nil"
             THEN [payments |-> <<>>, err |-> "failed to unmarshal payment data"]
             ELSE [payments |-> Append(payments, d.payment), err |-> "nil"]

\* Why a round fails, from what the GET and the decoding did.
FailureOf(reply) ==
    CASE reply.err = "io" -> "fetch-io"
      [] reply.err = "redis.Nil" -> "fetch-nil"
      [] Unmarshal(reply.val).err # "nil" -> "decode"
      [] OTHER -> "none"

NoScan == [keys |-> <<>>, i |-> 1, payments |-> <<>>]

NoListing == [payments |-> <<>>, isNil |-> TRUE, err |-> "none"]

\* The KEYS command and what follows it up to the loop (an empty reply
\* makes the call return at once).
GetPendingPaymentsKeys ==
    /\ lpc \in {"idle", "done"}
    /\ \E fault \in BOOLEAN :
       \E reply \in RedisKeys(store, PaymentPrefix, fault) :
          IF reply.err # "nil"
          THEN /\ lpc' = "done"
               /\ scan' = NoScan
               /\ failure' = "scan"
               /\ listed' = [payments |-> <<>>, isNil |-> TRUE,
                             err |-> "failed to get pending payments"]
          ELSE /\ scan' = [keys |-> reply.keys, i |-> 1, payments |-> <<>>]
               /\ failure' = "none"
               /\ IF reply.keys = <<>>
                  THEN /\ lpc' = "done"
                       /\ listed' = [payments |-> <<>>, isNil |-> FALSE,
                                     err |-> "nil"]
                  ELSE /\ lpc' = "loop"
                       /\ listed' = NoListing
    /\ disturbed' = FALSE
    /\ UNCHANGED <<rewardVars, storeVars, runnerVars>>

\* One round of the loop: the GET of the next key, its decoding, and the
\* return when it fails or when it was the last key.
GetPendingPaymentsLoop ==
    /\ lpc = "loop"
    /\ \E fault \in BOOLEAN :
          LET reply == RedisGet(store, scan.keys[scan.i], fault)
              step == LoopStep(scan.payments, reply)
          IN  /\ failure' = IF failure = "none" THEN FailureOf(reply) ELSE failure
              /\ IF step.err # "nil"
                 THEN /\ lpc' = "done"
                      /\ listed' = [payments |-> <<>>, isNil |-> TRUE,
                                    err |-> step.err]
                      /\ scan' = scan
                 ELSE /\ scan' = [scan EXCEPT !.i = @ + 1,
                                              !.payments = step.payments]
                      /\ IF scan.i = Len(scan.keys)
                         THEN /\ lpc' = "done"
                              /\ listed' = [payments |-> step.payments,
                                            isNil |-> FALSE, err |-> "nil"]
                         ELSE /\ lpc' = "loop"
                              /\ listed' = listed
    /\ UNCHANGED <<rewardVars, storeVars, disturbed, runnerVars>>

(***************************************************************************)
(* The other processes that share the store.                               *)
(***************************************************************************)
\* The crediting subsystem writes a record under its key.
PersistPayment ==
    /\ \E key \in PaymentKeys, p \in PaymentRecords :
          store' = SetKey(store, key, Marshal(p))
    /\ disturbed' = (disturbed \/ lpc # "idle")
    /\ UNCHANGED <<rewardVars, lastOp, lpc, scan, listed, failure, runnerVars>>

\* Another process calls StoreExchangeData (with the value 1.0).
PeerStoreExchangeData ==
    /\ \E key \in LedgerKeys :
          store' = SetKey(store, key, FormatFloat(100))
    /\ disturbed' = (disturbed \/ lpc # "idle")
    /\ UNCHANGED <<rewardVars, lastOp, lpc, scan, listed, failure, runnerVars>>

\* Another process calls WriteMinerCharts or WritePoolCharts.
PeerWriteCharts ==
    /\ \E key \in PaymentKeys, data \in ChartData :
          LET m == JsonMarshal(data)
          IN  store' = IF m.err # "nil" THEN store ELSE SetKey(store, key, m.text)
    /\ disturbed' = (disturbed \/ lpc # "idle")
    /\ UNCHANGED <<rewardVars, lastOp, lpc, scan, listed, failure, runnerVars>>

\* Another process deletes a key (the payout runner removing a payment it
\* paid, DeleteOldMinerData, DeleteOldShareData).
PeerDelete ==
    /\ \E key \in LedgerKeys : store' = DelKey(store, key)
    /\ disturbed' = (disturbed \/ lpc # "idle")
    /\ UNCHANGED <<rewardVars, lastOp, lpc, scan, listed, failure, runnerVars>>

(***************************************************************************)
(* The payout runners: each calls IsPayoutsLocked and, when it returns     *)
(* false, sets the sentinel, reads the pending payments, pays out and      *)
(* clears the sentinel.  Every command of a runner is one step; the store  *)
(* is reachable and no other process writes it.                            *)
(***************************************************************************)
Runners == 1..NumRunners

\* GetPendingPayments run to its end on a store nobody writes meanwhile.
RECURSIVE PaymentsLoop(_, _, _, _)
PaymentsLoop(s, keys, i, payments) ==
    IF i > Len(keys)
    THEN [payments |-> payments, isNil |-> FALSE, err |-> "nil"]
    ELSE LET step == LoopStep(payments, RedisGet(s, keys[i], FALSE))
         IN  IF step.err # "nil"
             THEN [payments |-> <<>>, isNil |-> TRUE, err |-> step.err]
             ELSE PaymentsLoop(s, keys, i + 1, step.payments)

GetPendingPayments(s, reply) ==
    IF reply.err # "nil"
    THEN [payments |-> <<>>, isNil |-> TRUE,
          err |-> "failed to get pending payments"]
    ELSE PaymentsLoop(s, reply.keys, 1, <<>>)

InBatch(r) == pc[r] \in {"read", "pay", "clear"}

RunnerCheck(r) ==
    /\ pc[r] = "idle"
    /\ LET res == IsPayoutsLocked(RedisGet(store, LockKey, FALSE))
       IN  /\ saw' = [saw EXCEPT ![r] = IF res.locked THEN "locked" ELSE "free"]
           /\ pc' = [pc EXCEPT ![r] = IF res.err # "nil" \/ res.locked
                                      THEN "idle"
                                      ELSE "set"]
           /\ raced' = (raced \/ (/\ res.err = "nil"
                                  /\ ~res.locked
                                  /\ \E q \in Runners \ {r} : pc[q] = "set"))
    /\ UNCHANGED <<rewardVars, storeVars, ledgerVars, batch>>

RunnerSet(r) ==
    /\ pc[r] = "set"
    /\ store' = SetKey(store, LockKey, One)
    /\ pc' = [pc EXCEPT ![r] = "read"]
    /\ UNCHANGED <<rewardVars, lastOp, ledgerVars, saw, batch, raced>>

RunnerRead(r) ==
    /\ pc[r] = "read"
    /\ \E reply \in RedisKeys(store, PaymentPrefix, FALSE) :
          batch' = [batch EXCEPT
                       ![r] = Len(GetPendingPayments(store, reply).payments)]
    /\ pc' = [pc EXCEPT ![r] = "pay"]
    /\ UNCHANGED <<rewardVars, storeVars, ledgerVars, saw, raced>>

\* Paying out is the work of the transaction sender; it writes no key.
RunnerPay(r) ==
    /\ pc[r] = "pay"
    /\ pc' = [pc EXCEPT ![r] = "clear"]
    /\ UNCHANGED <<rewardVars, storeVars, ledgerVars, saw, batch, raced>>

RunnerClear(r) ==
    /\ pc[r] = "clear"
    /\ store' = DelKey(store, LockKey)
    /\ pc' = [pc EXCEPT ![r] = "idle"]
    /\ batch' = [batch EXCEPT ![r] = 0]
    /\ UNCHANGED <<rewardVars, lastOp, ledgerVars, saw, raced>>

(***************************************************************************)
(* The specifications.                                                     *)
(***************************************************************************)
InitReward ==
    /\ config \in NetworkConfig
    /\ lastCall = NoCall
    /\ prevCall = NoCall
    /\ exited = FALSE
    /\ store = EmptyStore
    /\ lastOp = NoOp
    /\ lpc = "idle"
    /\ scan = NoScan
    /\ listed = NoListing
    /\ failure = "none"
    /\ disturbed = FALSE
    /\ pc = [r \in Runners |-> "idle"]
    /\ saw = [r \in Runners |-> "none"]
    /\ batch = [r \in Runners |-> 0]
    /\ raced = FALSE

NextReward == CallGetReward \/ SimulateUnlock

SpecReward == InitReward /\ [][NextReward]_vars

\* The store after NewRedisClient, with no key written yet.
InitStore ==
    /\ config = ZetherNetwork
    /\ lastCall = NoCall
    /\ prevCall = NoCall
    /\ exited = FALSE
    /\ store = EmptyStore
    /\ lastOp = NoOp
    /\ lpc = "idle"
    /\ scan = NoScan
    /\ listed = NoListing
    /\ failure = "none"
    /\ disturbed = FALSE
    /\ pc = [r \in Runners |-> "idle"]
    /\ saw = [r \in Runners |-> "none"]
    /\ batch = [r \in Runners |-> 0]
    /\ raced = FALSE

NextStore ==
    \/ CallIsPayoutsLocked
    \/ SetPayoutsLock
    \/ ClearPayoutsLock
    \/ CallStoreExchangeData
    \/ CallDeleteOldMinerData
    \/ CallDeleteOldShareData

SpecStore == InitStore /\ [][NextStore]_vars

NextLedger ==
    \/ GetPendingPaymentsKeys
    \/ GetPendingPaymentsLoop
    \/ PersistPayment
    \/ PeerStoreExchangeData
    \/ PeerWriteCharts
    \/ PeerDelete

SpecLedger == InitStore /\ [][NextLedger]_vars

\* The runners start with the lock free and with the records that the
\* crediting subsystem persisted.
InitRunners ==
    /\ config = ZetherNetwork
    /\ lastCall = NoCall
    /\ prevCall = NoCall
    /\ exited = FALSE
    /\ store \in {[k \in K |-> Marshal(SamplePayment)] : K \in SUBSET PaymentKeys}
    /\ lastOp = NoOp
    /\ lpc = "idle"
    /\ scan = NoScan
    /\ listed = NoListing
    /\ failure = "none"
    /\ disturbed = FALSE
    /\ pc = [r \in Runners |-> "idle"]
    /\ saw = [r \in Runners |-> "none"]
    /\ batch = [r \in Runners |-> 0]
    /\ raced = FALSE

NextRunners ==
    \E r \in Runners :
        \/ RunnerCheck(r)
        \/ RunnerSet(r)
        \/ RunnerRead(r)
        \/ RunnerPay(r)
        \/ RunnerClear(r)

SpecRunners == InitRunners /\ [][NextRunners]_vars

(***************************************************************************)
(* The resolver's properties.                                              *)
(***************************************************************************)
\* The amount of the breakpoint with the largest minHeight <= height, and
\* zero when there is none.
Applicable(schedule, height) == {m \in DOMAIN schedule : m <= height}

LatestBreakpoint(schedule, height) ==
    CHOOSE m \in Applicable(schedule, height) :
        \A n \in Applicable(schedule, height) : n <= m

ExpectedReward(schedule, height) ==
    IF Applicable(schedule, height) = {}
    THEN 0
    ELSE schedule[LatestBreakpoint(schedule, height)]

\* Strictly increasing minHeight (a map's keys are distinct) with
\* non-increasing rewardAmount.
Decaying(schedule) ==
    \A m, n \in DOMAIN schedule : m < n => schedule[m] >= schedule[n]

\* C1: for every schedule and every height >= 0, GetReward returns the
\* rewardAmount of the breakpoint with the largest minHeight <= height, and
\* zero when no breakpoint qualifies, whatever the order of traversal.
C1_LatestBreakpointWins ==
    (lastCall.fn = "GetReward" /\ lastCall.height >= 0)
        => lastCall.reward = ExpectedReward(config.BlockReward, lastCall.height)

\* C5: GetReward called with a negative height fails with InvalidArgument
\* and returns no reward.
C5_NegativeHeightRejected ==
    (lastCall.fn = "GetReward" /\ lastCall.height < 0)
        => lastCall.err = "InvalidArgument"

\* C8: on a decaying schedule, for heights 0 <= h1 <= h2 the reward at h1 is
\* at least the reward at h2.
C8_NonIncreasingInHeight ==
    (/\ Decaying(config.BlockReward)
     /\ prevCall.fn = "GetReward" /\ lastCall.fn = "GetReward"
     /\ 0 <= prevCall.height /\ prevCall.height <= lastCall.height)
        => prevCall.reward >= lastCall.reward

\* C9: two calls with the same schedule and the same height return the same
\* amount, whatever the order in which the entries are visited.
C9_SameHeightSameReward ==
    (/\ prevCall.fn = "GetReward" /\ lastCall.fn = "GetReward"
     /\ prevCall.height = lastCall.height)
        => prevCall.reward = lastCall.reward

(***************************************************************************)
(* The lock's and the deletions' properties.                               *)
(***************************************************************************)
SentinelIsOne == LockKey \in DOMAIN store /\ store[LockKey] = One

\* C3: on a reachable store IsPayoutsLocked returns without error, and its
\* result is true exactly when the sentinel key holds "1": false with no
\* key, true once the sentinel is set, false once it is deleted.
C3_LockedIffSentinelIsOne ==
    (lastOp.op = "IsPayoutsLocked" /\ ~lastOp.fault)
        => (lastOp.err = "nil" /\ lastOp.locked = SentinelIsOne)

\* The sentinel holds "1" and IsPayoutsLocked has returned true.
C3_LockedSeen ==
    /\ lastOp.op = "IsPayoutsLocked"
    /\ ~lastOp.fault
    /\ lastOp.locked
    /\ lastOp.err = "nil"
    /\ SentinelIsOne

\* C6: a failure of the read other than key-not-found makes IsPayoutsLocked
\* return an error, never an unlocked result; key-not-found alone becomes
\* (false, no error).
C6_FailureIsAnError ==
    lastOp.op = "IsPayoutsLocked"
        => /\ lastOp.fault => lastOp.err # "nil"
           /\ (~lastOp.fault /\ ~lastOp.existed)
                 => (lastOp.err = "nil" /\ ~lastOp.locked)

\* The read of the sentinel failed and IsPayoutsLocked returned its error.
C6_FailureSeen ==
    /\ lastOp.op = "IsPayoutsLocked"
    /\ lastOp.fault
    /\ lastOp.err = "failed to check payouts lock"

\* A step that is a deletion on a reachable store.
DeleteIsClean ==
    (lastOp'.op \in DeleteOps /\ ~lastOp'.fault)
        => /\ lastOp'.err = "nil"
           /\ lastOp'.key \notin DOMAIN store'
           /\ \A k \in StoreKeys \ {lastOp'.key} :
                 /\ (k \in DOMAIN store') = (k \in DOMAIN store)
                 /\ k \in DOMAIN store => store'[k] = store[k]

\* C10: on a reachable store a deletion returns no error whether or not the
\* key was there, leaves the key absent and changes no other key; so does
\* the same deletion made again.
C10_DeleteIdempotent == [][DeleteIsClean]_vars

\* The same absent key deleted twice in a row, without error.

C10_DeletedTwice ==
    /\ lastOp.op \in DeleteOps
    /\ ~lastOp.fault
    /\ ~lastOp.existed
    /\ lastOp.repeat = 2
    /\ lastOp.err = "nil"
    /\ lastOp.key \notin DOMAIN store

(***************************************************************************)
(* The ledger's properties.                                                *)
(***************************************************************************)
\* C4: when the fetch of any enumerated key fails (also a key removed
\* between the scan and its fetch) or any value fails to decode, the call
\* returns an error and no records; a list it returns holds one record for
\* every enumerated key.
C4_FailFast ==
    lpc = "done"
        => /\ failure # "none"
                 => (listed.err # "nil" /\ listed.isNil /\ listed.payments = <<>>)
           /\ listed.err = "nil"
                 => (failure = "none" /\ Len(listed.payments) = Len(scan.keys))

\* A key fetched and decoded, then the next one found removed: the call
\* fails and the record already decoded is not returned.
C4_RemovedAfterScan ==
    /\ lpc = "done"
    /\ failure = "fetch-nil"
    /\ disturbed
    /\ Len(scan.payments) = 1
    /\ listed.err = "failed to get payment data for key"
    /\ listed.isNil

StoredPaymentKeys == {k \in DOMAIN store : Matches(k, PaymentPrefix)}

AllWellFormed ==
    \A k \in StoredPaymentKeys : \E p \in PaymentRecords : store[k] = Marshal(p)

\* C7: with well-formed records under distinct pending_payment keys, a
\* reachable store and no concurrent write, the call succeeds and returns
\* exactly one record per stored key, equal to the persisted one in every
\* field, in some order.
C7_RoundTrip ==
    (/\ lpc = "done"
     /\ ~disturbed
     /\ failure \notin {"scan", "fetch-io"}
     /\ AllWellFormed)
        => /\ listed.err = "nil"
           /\ ~listed.isNil
           /\ Len(listed.payments) = Cardinality(StoredPaymentKeys)
           /\ \A p \in PaymentRecords :
                 Cardinality({i \in 1..Len(listed.payments) :
                                 listed.payments[i] = p})
                    = Cardinality({k \in StoredPaymentKeys :
                                      store[k] = Marshal(p)})

\* Two different records, and a key outside the namespace, stored and the
\* two records listed.
C7_TwoRecordsListed ==
    /\ lpc = "done"
    /\ ~disturbed
    /\ failure = "none"
    /\ AllWellFormed
    /\ MinerKey \in DOMAIN store
    /\ Cardinality(StoredPaymentKeys) = 2
    /\ Len(listed.payments) = 2
    /\ listed.payments[1] # listed.payments[2]
    /\ listed.err = "nil"

(***************************************************************************)
(* The payout lock's property.                                             *)
(***************************************************************************)
RunnersInBatch == {r \in Runners : InBatch(r)}

\* C2 as stated: in every interleaving of the runners' store operations at
\* most one runner is inside a payout batch (between its set and its clear).
C2_MutualExclusion == Cardinality(RunnersInBatch) <= 1

\* C2 as amended: as long as no runner's IsPayoutsLocked call has returned
\* false while another runner was between its own such call and its set of
\* the sentinel, at most one runner is inside a payout batch.
C2_ExclusionWithoutRace == ~raced => Cardinality(RunnersInBatch) <= 1

\* A runner is inside its batch and another one, calling IsPayoutsLocked
\* meanwhile, was refused.
C2_OneInsideOneRefused ==
    /\ ~raced
    /\ \E r \in Runners :
          /\ InBatch(r)
          /\ \E q \in Runners \ {r} : pc[q] = "idle" /\ saw[q] = "locked"

====
